---- MODULE Spec2Model ----
(***************************************************************************)
(* A model of the CIBIL report parser's persistence layer (save_to_db,     *)
(* init_db in cibil_parser_v2.py), of the HTTP handlers of main.py that    *)
(* read and delete what it stores, and of the account-section parser.      *)
(*                                                                         *)
(* The SQLite file is the committed image `db`.  Every connection works on *)
(* a private image `txn` from its first write statement (python's sqlite3  *)
(* issues BEGIN before INSERT/DELETE) until commit; the write (RESERVED)   *)
(* lock is held by at most one connection in that period.  A connection     *)
(* that is dropped without commit rolls its transaction back.              *)
(***************************************************************************)
EXTENDS Integers, Sequences, FiniteSets, TLC

(* ------------------------------------------------------------------ *)
(* Bounds of the model                                                  *)
(* ------------------------------------------------------------------ *)
\* number of ingestions (save_to_db calls) started in one behaviour
MaxIngest == 3

\* the same when requests are served at the same time
MaxConcIngest == 2

\* the connections (requests) that may be open at the same time
Conn == {1, 2}

NULL == "NULL"

(* ------------------------------------------------------------------ *)
(* The schema (init_db)                                                 *)
(* ------------------------------------------------------------------ *)
\* tables whose rows point to report_metadata(id) through report_id and
\* that carry no further structure in this model
PlainChildTables ==
    {"score_summary", "personal_details", "identification_details",
     "address_details", "contact_details", "employment_details", "enquiries"}

\* every table with a report_id foreign key
ReportChildTables == PlainChildTables \cup {"accounts"}

Tables == ReportChildTables \cup {"report_metadata", "payment_history"}

\* the database right after init_db on a new file: all tables empty, every
\* AUTOINCREMENT sequence (sqlite_sequence) at 0
init_db ==
    [tab |-> [t \in Tables |-> {}], seq |-> [t \in Tables |-> 0]]

(* ------------------------------------------------------------------ *)
(* Structured reports (the output of parse_cibil_pdf)                   *)
(* ------------------------------------------------------------------ *)
\* what parse_cibil_pdf returns for an empty page sequence (pages = 0):
\* every field null, one identification entry (the PAN entry is always
\* appended), no address, account or enquiry
EmptyPagesReport ==
    [pages |-> 0,
     control_number |-> NULL, report_date |-> NULL, nIds |-> 1, nAddr |-> 0,
     open |-> << >>, closed |-> << >>, nEnq |-> 0]

(* ------------------------------------------------------------------ *)
(* save_to_db as a sequence of SQL statements                           *)
(* ------------------------------------------------------------------ *)
Rep(x, n) == [i \in 1..n |-> x]

RECURSIVE AccountStmts_all_open(_, _)
\* an insertion of accounts that stores every account as open
AccountStmts_all_open(is_open, accs) ==
    IF accs = << >> THEN << >>
    ELSE << [op |-> "accounts", is_open |-> 1,
             date_closed |-> Head(accs).date_closed] >>
         \o [k \in DOMAIN Head(accs).payment_history |->
                [op    |-> "payment_history",
                 month |-> Head(accs).payment_history[k].month,
                 dpd   |-> Head(accs).payment_history[k].dpd]]
         \o AccountStmts_all_open(is_open, Tail(accs))

RECURSIVE AccountStmts(_, _)
\* lines 571-595: one INSERT INTO accounts per account, followed by one
\* INSERT INTO payment_history per entry of its payment_history
AccountStmts(is_open, accs) ==
    IF accs = << >> THEN << >>
    ELSE << [op |-> "accounts", is_open |-> is_open,
             date_closed |-> Head(accs).date_closed] >>
         \o [k \in DOMAIN Head(accs).payment_history |->
                [op    |-> "payment_history",
                 month |-> Head(accs).payment_history[k].month,
                 dpd   |-> Head(accs).payment_history[k].dpd]]
         \o AccountStmts(is_open, Tail(accs))

\* the statements save_to_db executes for report d, in order
SaveStmts(d) ==
    << [op |-> "report_metadata"] >>
    \o << [op |-> "score_summary"] >>
    \o << [op |-> "personal_details"] >>
    \o Rep([op |-> "identification_details"], d.nIds)
    \o Rep([op |-> "address_details"], d.nAddr)
    \o << [op |-> "contact_details"] >>
    \o << [op |-> "employment_details"] >>
    \o AccountStmts(1, d.open)
    \o AccountStmts(0, d.closed)
    \o Rep([op |-> "enquiries"], d.nEnq)

\* INTEGER PRIMARY KEY AUTOINCREMENT: one more than the table's sequence
NewId(img, t) == img.seq[t] + 1

\* a plain INSERT of row into table t (the row's id already set)
InsertRow(img, t, row) ==
    [tab |-> [img.tab EXCEPT ![t] = @ \cup {row}],
     seq |-> [img.seq EXCEPT ![t] = row.id]]

\* an INSERT without the ON CONFLICT clause that ignores the UNIQUE
\* constraint
Upsert_always_inserts(st, d, now) ==
    LET id == NewId(st.img, "report_metadata")
    IN  [st EXCEPT
           !.img = InsertRow(st.img, "report_metadata",
                             [id |-> id, control_number |-> d.control_number,
                              report_date |-> d.report_date,
                              created_at |-> now]),
           !.lastrowid = id]

\* lines 530-535: INSERT ... ON CONFLICT(control_number) DO UPDATE.
\* control_number is UNIQUE; SQLite treats NULLs as distinct, so a NULL
\* control_number never conflicts.  On conflict the row keeps its id, the
\* sequence is still advanced, and the connection's last_insert_rowid is
\* left as it was.
Upsert(st, d, now) ==
    LET rm  == st.img.tab["report_metadata"]
        hit == {r \in rm : d.control_number # NULL
                           /\ r.control_number = d.control_number}
        id  == NewId(st.img, "report_metadata")
    IN  IF hit # {}
        THEN [st EXCEPT
                !.img = [tab |-> [st.img.tab EXCEPT !["report_metadata"] =
                                    (rm \ hit) \cup
                                    {[r EXCEPT !.report_date = d.report_date,
                                               !.created_at = now] : r \in hit}],
                         seq |-> [st.img.seq EXCEPT !["report_metadata"] = id]]]
        ELSE [st EXCEPT
                !.img = InsertRow(st.img, "report_metadata",
                                  [id |-> id, control_number |-> d.control_number,
                                   report_date |-> d.report_date,
                                   created_at |-> now]),
                !.lastrowid = id]

\* lines 536-538: report_id = cur.lastrowid or (SELECT id ... WHERE
\* control_number=?)
SelectReportId(st, d) ==
    IF st.lastrowid # 0 THEN st.lastrowid
    ELSE LET hit == {r \in st.img.tab["report_metadata"] :
                        d.control_number # NULL
                        /\ r.control_number = d.control_number}
         IN  IF hit = {} THEN 0 ELSE (CHOOSE r \in hit : TRUE).id

\* one statement of save_to_db executed on the connection state st =
\* [img, lastrowid, report_id, acc_id]; now tags the rows of this ingestion
ExecSave(st, s, d, now) ==
    IF s.op = "report_metadata"
    THEN LET u == Upsert(st, d, now)
         IN  [u EXCEPT !.report_id = SelectReportId(u, d)]
    ELSE LET id == NewId(st.img, s.op)
         IN  IF s.op = "accounts"
             THEN [st EXCEPT
                     !.img = InsertRow(st.img, "accounts",
                                [id |-> id, report_id |-> st.report_id,
                                 is_open |-> s.is_open,
                                 date_closed |-> s.date_closed, ing |-> now]),
                     !.lastrowid = id,
                     !.acc_id = id]
             ELSE IF s.op = "payment_history"
             THEN [st EXCEPT
                     !.img = InsertRow(st.img, "payment_history",
                                [id |-> id, account_id |-> st.acc_id,
                                 month |-> s.month, dpd |-> s.dpd,
                                 ing |-> now]),
                     !.lastrowid = id]
             ELSE [st EXCEPT
                     !.img = InsertRow(st.img, s.op,
                                [id |-> id, report_id |-> st.report_id,
                                 ing |-> now]),
                     !.lastrowid = id]

RECURSIVE RunSave(_, _, _, _, _)
\* the first k statements of stmts executed in order
RunSave(st, stmts, k, d, now) ==
    IF k = 0 \/ stmts = << >> THEN st
    ELSE RunSave(ExecSave(st, Head(stmts), d, now), Tail(stmts), k - 1, d, now)

(* ------------------------------------------------------------------ *)
(* delete_report as a sequence of SQL statements                        *)
(* ------------------------------------------------------------------ *)
RECURSIVE SortedSeq(_)
\* the elements of a finite set of integers in ascending order (the order
\* in which SELECT id FROM accounts returns them)
SortedSeq(S) ==
    IF S = {} THEN << >>
    ELSE LET m == CHOOSE x \in S : \A y \in S : x <= y
         IN  << m >> \o SortedSeq(S \ {m})

\* a delete_report that removes the report row first
DeleteTables_report_first ==
    << "report_metadata", "accounts", "enquiries", "employment_details",
       "contact_details", "address_details", "identification_details",
       "personal_details", "score_summary" >>

\* main.py lines 259-261: the tables delete_report empties, in this order
DeleteTables ==
    << "accounts", "enquiries", "employment_details", "contact_details",
       "address_details", "identification_details", "personal_details",
       "score_summary", "report_metadata" >>

\* main.py lines 253-255: SELECT id FROM accounts WHERE report_id=?
SelectAccountIds(img, rid) ==
    SortedSeq({a.id : a \in {x \in img.tab["accounts"] : x.report_id = rid}})

\* a delete_report that leaves the payment history in place
DeleteStmts_keeps_history(acc_ids) ==
    [i \in 1..Len(DeleteTables) |-> [op |-> DeleteTables[i], aid |-> 0]]

\* main.py lines 256-264: one DELETE FROM payment_history per account id
\* read before, then one DELETE per table of DeleteTables
DeleteStmts(acc_ids) ==
    [i \in 1..Len(acc_ids) |-> [op |-> "payment_history", aid |-> acc_ids[i]]]
    \o [i \in 1..Len(DeleteTables) |-> [op |-> DeleteTables[i], aid |-> 0]]

\* one DELETE statement of delete_report(rid) executed on image img
ExecDelete(img, s, rid) ==
    [img EXCEPT !.tab[s.op] =
        IF s.op = "payment_history" THEN {r \in @ : r.account_id # s.aid}
        ELSE IF s.op = "report_metadata" THEN {r \in @ : r.id # rid}
        ELSE {r \in @ : r.report_id # rid}]

(* ------------------------------------------------------------------ *)
(* The read-only handlers of main.py, as functions of the committed     *)
(* image: the HTTP status each answers for report id                    *)
(* ------------------------------------------------------------------ *)
\* lines 126-128: 404 when report_metadata has no row with that id
get_report(img, id) ==
    IF \E r \in img.tab["report_metadata"] : r.id = id THEN 200 ELSE 404

\* lines 139-150: the "accounts" part of get_report's answer: the accounts
\* rows of the report, under open_accounts when is_open is truthy and under
\* closed_accounts otherwise
get_report_accounts(img, id) ==
    LET accounts_rows == {r \in img.tab["accounts"] : r.report_id = id}
    IN  [open_accounts   |-> {acc \in accounts_rows : acc.is_open # 0},
         closed_accounts |-> {acc \in accounts_rows : acc.is_open = 0}]

\* the rows of table t joined to report id by LEFT JOIN: the ids of its
\* rows of that report, or one NULL when it has none
LeftJoin(img, t, id) ==
    LET rows == {r.id : r \in {x \in img.tab[t] : x.report_id = id}}
    IN  IF rows = {} THEN {0} ELSE rows

\* lines 109-118: one entry per row of report_metadata LEFT JOIN
\* score_summary LEFT JOIN personal_details.  An entry is told apart by the
\* rows it was joined from (score and person are their ids, 0 for NULL);
\* the order of the list is left out.
list_reports(img) ==
    UNION {{[id |-> r.id, control_number |-> r.control_number,
             report_date |-> r.report_date, created_at |-> r.created_at,
             score |-> s, person |-> p] :
               s \in LeftJoin(img, "score_summary", r.id),
               p \in LeftJoin(img, "personal_details", r.id)} :
           r \in img.tab["report_metadata"]}

\* lines 179-183: 404 when score_summary has no row for that report
get_score(img, id) ==
    IF \E r \in img.tab["score_summary"] : r.report_id = id THEN 200 ELSE 404

\* lines 192-197: 404 when accounts has no row for that report
get_accounts(img, id) ==
    IF \E r \in img.tab["accounts"] : r.report_id = id THEN 200 ELSE 404

\* lines 233-240: always answers 200, with total = 0 when no row matches
get_enquiries(img, id) == 200

Lookups == {"get_report", "get_score", "get_accounts", "get_enquiries"}

\* the status handler op answers for report id on image img
LookupStatus(op, img, id) ==
    IF op = "get_report" THEN get_report(img, id)
    ELSE IF op = "get_score" THEN get_score(img, id)
    ELSE IF op = "get_accounts" THEN get_accounts(img, id)
    ELSE get_enquiries(img, id)

\* ---------------------------------------------------------------------
\* The account-section parser (cibil_parser_v2.py).  A text is a sequence
\* of lines and a line a sequence of atoms: a digit, a separator or a space
\* is an atom of its own, a run of letters (a label, a name) is one atom.
\* The modelled texts hold no blank line, and a label stands alone on its
\* line, in the letter case the code writes it in.
\* ---------------------------------------------------------------------

\* longest accounts section the parser is run on, in lines
MaxLines == 6

\* Python's None and the empty string, both false in a condition
None == << >>

Digits == {"0", "1", "2", "3", "4", "5", "6", "7", "8", "9"}

DigitVal(a) ==
    CASE a = "0" -> 0 [] a = "1" -> 1 [] a = "2" -> 2 [] a = "3" -> 3
      [] a = "4" -> 4 [] a = "5" -> 5 [] a = "6" -> 6 [] a = "7" -> 7
      [] a = "8" -> 8 [] a = "9" -> 9

DigitChar(n) == CHOOSE a \in Digits : DigitVal(a) = n

\* int() of a run of digits
RECURSIVE IntOf(_)
IntOf(s) ==
    IF s = << >> THEN 0
    ELSE 10 * IntOf(SubSeq(s, 1, Len(s) - 1)) + DigitVal(s[Len(s)])

\* a format without the zero padding
Pad2_unpadded(n) ==
    IF n < 10 THEN << DigitChar(n) >>
    ELSE << DigitChar(n \div 10), DigitChar(n % 10) >>

\* the format {:02d}
Pad2(n) ==
    IF n < 10 THEN << "0", DigitChar(n) >>
    ELSE << DigitChar(n \div 10), DigitChar(n % 10) >>

\* str.strip()
RECURSIVE Strip(_)
Strip(s) ==
    IF s = << >> THEN s
    ELSE IF s[1] = " " THEN Strip(Tail(s))
    ELSE IF s[Len(s)] = " " THEN Strip(SubSeq(s, 1, Len(s) - 1))
    ELSE s

AllDigits(s) == \A i \in DOMAIN s : s[i] \in Digits

\* the ways (\d{1,2})[/\-\.](\d{1,2})[/\-\.](\d{4}) matches at the start
\* of s: the lengths of the day and of the month group
DateMatches(s) ==
    {dm \in {1, 2} \X {1, 2} :
        LET dl == dm[1]
            ml == dm[2]
        IN  /\ Len(s) >= dl + ml + 6
            /\ AllDigits(SubSeq(s, 1, dl))
            /\ s[dl + 1] \in {"/", "-", "."}
            /\ AllDigits(SubSeq(s, dl + 2, dl + 1 + ml))
            /\ s[dl + ml + 2] \in {"/", "-", "."}
            /\ AllDigits(SubSeq(s, dl + ml + 3, dl + ml + 6))}

\* a norm_date that keeps the fields in the order of the input
norm_date_day_first(raw) ==
    IF raw = None \/ Strip(raw) \in {<< "-" >>, << >>, << "None" >>} THEN None
    ELSE LET s == Strip(raw)
             M == DateMatches(s)
         IN  IF M = {} THEN None
             ELSE LET dm == CHOOSE x \in M :
                              \A y \in M : x[1] > y[1]
                                           \/ (x[1] = y[1] /\ x[2] >= y[2])
                      dl == dm[1]
                      ml == dm[2]
                  IN  Pad2(IntOf(SubSeq(s, 1, dl)))
                      \o << "-" >>
                      \o Pad2(IntOf(SubSeq(s, dl + 2, dl + 1 + ml)))
                      \o << "-" >>
                      \o SubSeq(s, dl + ml + 3, dl + ml + 6)

norm_date(raw) ==
    IF raw = None \/ Strip(raw) \in {<< "-" >>, << >>, << "None" >>} THEN None
    ELSE LET s == Strip(raw)
             M == DateMatches(s)
         IN  IF M = {} THEN None
             ELSE LET dm == CHOOSE x \in M :
                              \A y \in M : x[1] > y[1]
                                           \/ (x[1] = y[1] /\ x[2] >= y[2])
                      dl == dm[1]
                      ml == dm[2]
                  IN  SubSeq(s, dl + ml + 3, dl + ml + 6)
                      \o << "-" >>
                      \o Pad2(IntOf(SubSeq(s, dl + 2, dl + 1 + ml)))
                      \o << "-" >>
                      \o Pad2(IntOf(SubSeq(s, 1, dl)))

\* the two decimal digits of n < 100
TwoDigits(n) == << DigitChar(n \div 10), DigitChar(n % 10) >>

\* the inputs norm_date is run on.  A date D/M/YYYY is described by its
\* day and month numbers, whether each is written with a leading zero, its
\* year, its two separators and what follows the year.
DateInputs ==
    [kind : {"date"}, d : 1..31, m : 1..12, dpad : BOOLEAN, mpad : BOOLEAN,
     y : {<< "2", "0", "2", "4" >>, << "1", "9", "9", "9" >>},
     s1 : {"/", "-", "."}, s2 : {"/", "-", "."},
     tail : {<< >>, << " " >>}, raw : {<< >>}]

\* inputs that are no date written day first
OtherInputs ==
    [kind : {"other"}, d : {0}, m : {0}, dpad : {FALSE}, mpad : {FALSE},
     y : {<< >>}, s1 : {""}, s2 : {""}, tail : {<< >>},
     raw : {<< >>, << "-" >>, << "None" >>, << " " >>, << " ", "-", " " >>,
            << "2", "0", "2", "4", "-", "0", "2", "-", "0", "1" >>,
            << "2", "0", "2", "4", "/", "2", "/", "1" >>,
            << "1", "2", "/", "2", "0", "2", "4" >>,
            << "1", "/", "2", "/", "2", "4" >>,
            << "1", " ", "/", "2", "/", "2", "0", "2", "4" >>,
            << "0", "0", "1", "/", "2", "/", "2", "0", "2", "4" >>,
            << "1", "/", "2", ",", "2", "0", "2", "4" >>,
            << "ABC Bank" >>, << "Jan", " ", "2", "0", "2", "4" >>}]

\* a number below 100 as written: with a leading zero when padded
Written(n, pad) ==
    IF n >= 10 \/ pad THEN TwoDigits(n) ELSE << DigitChar(n) >>

\* the text of input x
RawOf(x) ==
    IF x.kind = "date"
    THEN Written(x.d, x.dpad) \o << x.s1 >> \o Written(x.m, x.mpad)
         \o << x.s2 >> \o x.y \o x.tail
    ELSE x.raw

\* ---------------------------------------------------------------------
\* parse_payment_history works on the characters of the chunk.  Here a
\* text is a sequence of atoms; the month names, the delinquency tokens
\* and the years are written one character per atom.  An atom of several
\* letters (a label, a name) stands for letters that spell no month name
\* and no token.
\* ---------------------------------------------------------------------

\* most pieces a payment-history text is made of
MaxPieces == 4

\* the month abbreviations of the two patterns, in calendar order
MonthNames ==
    << << "J", "a", "n" >>, << "F", "e", "b" >>, << "M", "a", "r" >>,
       << "A", "p", "r" >>, << "M", "a", "y" >>, << "J", "u", "n" >>,
       << "J", "u", "l" >>, << "A", "u", "g" >>, << "S", "e", "p" >>,
       << "O", "c", "t" >>, << "N", "o", "v" >>, << "D", "e", "c" >> >>

\* MONTH_MAP: "Jan" -> "01", ..., "Dec" -> "12"
MONTH_MAP(mon) ==
    Pad2(CHOOSE i \in DOMAIN MonthNames : MonthNames[i] = mon)

\* \s
IsSpace(a) == a \in {" ", "\n", "\t"}

\* the characters of t from position p on, or nothing
From(t, p) == IF p > Len(t) THEN << >> ELSE SubSeq(t, p, Len(t))

\* the length of the longest prefix of t made of white space
RECURSIVE SpaceRun(_)
SpaceRun(t) ==
    IF t # << >> /\ IsSpace(t[1]) THEN 1 + SpaceRun(Tail(t)) ELSE 0

\* the length of the longest prefix of t made of digits
RECURSIVE DigitRun(_)
DigitRun(t) ==
    IF t # << >> /\ t[1] \in Digits THEN 1 + DigitRun(Tail(t)) ELSE 0

\* (Jan|...|Dec)\s+(\d{4}) matches at position p of t
MonthAt(t, p) ==
    /\ p + 2 <= Len(t)
    /\ \E i \in DOMAIN MonthNames : SubSeq(t, p, p + 2) = MonthNames[i]
    /\ LET w == SpaceRun(From(t, p + 3))
       IN  /\ w >= 1
           /\ DigitRun(From(t, p + 3 + w)) >= 4

\* the position of the last digit of the year of the match at p
YearEnd(t, p) == p + 2 + SpaceRun(From(t, p + 3)) + 4

\* (STD|XXX|SMA|\d+|0)? at the start of t: the first alternative that
\* matches, the empty string when none does
TokenAt(t) ==
    IF Len(t) >= 3 /\ SubSeq(t, 1, 3) \in {<< "S", "T", "D" >>,
                                           << "X", "X", "X" >>,
                                           << "S", "M", "A" >>}
    THEN SubSeq(t, 1, 3)
    ELSE SubSeq(t, 1, DigitRun(t))

\* the token the second pattern captures for the month match at p: the
\* white space after the year is skipped first
TokenAfter(t, p) ==
    LET q == YearEnd(t, p) + 1
    IN  TokenAt(From(t, q + SpaceRun(From(t, q))))

\* the position of the last character of the second pattern's match at p
TokenEnd(t, p) ==
    LET q == YearEnd(t, p) + 1
    IN  q + SpaceRun(From(t, q)) + Len(TokenAfter(t, p)) - 1

\* re.findall of the first pattern: the positions of its matches, from
\* position p on, each search starting after the previous match
RECURSIVE months(_, _)
months(t, p) ==
    IF p > Len(t) THEN << >>
    ELSE IF MonthAt(t, p) THEN << p >> \o months(t, YearEnd(t, p) + 1)
    ELSE months(t, p + 1)

\* re.findall of the second pattern: the captured tokens, from position p
\* on, each search starting after the previous match, token included
RECURSIVE dpd_tokens(_, _)
dpd_tokens(t, p) ==
    IF p > Len(t) THEN << >>
    ELSE IF MonthAt(t, p)
         THEN << TokenAfter(t, p) >> \o dpd_tokens(t, TokenEnd(t, p) + 1)
    ELSE dpd_tokens(t, p + 1)

\* the dpd that is null
NoDpd == -1

\* a mapping that gives 0 for the token XXX as well
DpdOf_never_null(raw_dpd) ==
    IF AllDigits(raw_dpd) THEN IntOf(raw_dpd) ELSE 0

\* lines 237-246: the dpd of a captured token; int() of a token that is no
\* number raises ValueError, which is caught
DpdOf(raw_dpd) ==
    IF raw_dpd \in {None, << "S", "T", "D" >>, << "0" >>} THEN 0
    ELSE IF raw_dpd = << "X", "X", "X" >> THEN NoDpd
    ELSE IF AllDigits(raw_dpd) THEN IntOf(raw_dpd)
    ELSE 0

\* parse_payment_history on the characters t of a chunk.  Each entry also
\* carries the position of its month and the token it was paired with.
parse_payment_history(t) ==
    LET ms == months(t, 1)
        ts == dpd_tokens(t, 1)
    IN  [i \in DOMAIN ms |->
           LET raw_dpd == IF i <= Len(ts) THEN ts[i] ELSE None
           IN  [month   |-> SubSeq(t, YearEnd(t, ms[i]) - 3, YearEnd(t, ms[i]))
                            \o << "-" >>
                            \o MONTH_MAP(SubSeq(t, ms[i], ms[i] + 2)),
                dpd     |-> DpdOf(raw_dpd),
                at      |-> ms[i],
                raw_dpd |-> raw_dpd]]

\* the pieces the modelled payment-history texts are made of; the last is
\* a month whose first letter is missing
PieceAlphabet ==
    {<< "J", "a", "n", " ", "2", "0", "2", "4", " " >>,
     << "D", "e", "c", " ", "2", "0", "2", "4", "\n" >>,
     << "S", "T", "D" >>, << "X", "X", "X" >>, << "S", "M", "A" >>,
     << "4", "5" >>, << "0" >>,
     << "e", "c", " ", "2", "0", "2", "4", " " >>}

RECURSIVE Concat(_)
\* the pieces of ps one after the other
Concat(ps) == IF ps = << >> THEN << >> ELSE Head(ps) \o Concat(Tail(ps))

HistoryTexts ==
    {Concat(ps) : ps \in UNION {[1..n -> PieceAlphabet] : n \in 0..MaxPieces}}

\* find(label \s*\n ([^\n]+), chunk): the line after the first line that
\* ends with the label and has a line after it, stripped; None when no
\* such line
find(label, chunk) ==
    LET occ == {i \in 1..(Len(chunk) - 1) :
                   chunk[i] # << >> /\ chunk[i][Len(chunk[i])] = label}
    IN  IF occ = {} THEN None
        ELSE Strip(chunk[(CHOOSE i \in occ : \A j \in occ : i <= j) + 1])

\* get(label) of parse_single_account: both of its patterns capture the
\* line after a label that stands alone; a placeholder is no value
get(label, chunk) ==
    LET v == find(label, chunk)
    IN  IF v # None /\ Strip(v) \notin {<< "-" >>, << >>, << "None" >>}
        THEN Strip(v)
        ELSE None

\* The numbers of an account record: a float (its integer part and the
\* digits of its fraction), an int, null, or the ValueError that float()
\* raises.
Null == [kind |-> "null", int |-> 0, frac |-> << >>]

IntNum(n) == [kind |-> "int", int |-> n, frac |-> << >>]

FloatNum(n, f) == [kind |-> "float", int |-> n, frac |-> f]

ValueError == [kind |-> "ValueError", int |-> 0, frac |-> << >>]

IsNumChar(a) == a \in Digits \cup {"."}

IsDot(a) == a = "."

HasDigit(v) == \E i \in DOMAIN v : v[i] \in Digits

\* the number of characters of s before its first "."
RECURSIVE DotAt(_)
DotAt(s) == IF s = << >> \/ s[1] = "." THEN 0 ELSE 1 + DotAt(Tail(s))

\* the digits of a fraction without its trailing zeros
RECURSIVE TrimZeros(_)
TrimZeros(f) ==
    IF f # << >> /\ f[Len(f)] = "0" THEN TrimZeros(SubSeq(f, 1, Len(f) - 1))
    ELSE f

\* float(s) for a text of digits, dots and other atoms (no sign, exponent
\* or underscore): a value when s is digits with at most one "." and at
\* least one digit, ValueError otherwise
float(s) ==
    LET t == Strip(s)
    IN  IF /\ \A i \in DOMAIN t : IsNumChar(t[i])
           /\ HasDigit(t)
           /\ Len(SelectSeq(t, IsDot)) <= 1
        THEN FloatNum(IntOf(SubSeq(t, 1, DotAt(t))),
                   TrimZeros(SubSeq(t, DotAt(t) + 2, Len(t))))
        ELSE ValueError

\* lines 46-50: everything but digits and dots is removed, and float() is
\* applied to what is left unless nothing is
norm_float(raw) ==
    IF raw = None THEN Null
    ELSE LET s == SelectSeq(raw, IsNumChar)
         IN  IF s = << >> THEN Null ELSE float(s)

\* lines 280-282: money(label)
money(label, chunk) ==
    LET v == get(label, chunk)
    IN  IF v # None /\ HasDigit(v) THEN norm_float(v) ELSE Null

IsNoPercent(a) == a # "%"

\* lines 284-285: roi
rate_of_interest(chunk) ==
    LET roi_raw == get("Rate of Interest", chunk)
    IN  IF roi_raw # None THEN norm_float(SelectSeq(roi_raw, IsNoPercent))
        ELSE Null

\* lines 287-288: tenure = int(float(tenure_raw)) when tenure_raw starts
\* with a digit
repayment_tenure(chunk) ==
    LET tenure_raw == get("Repayment Tenure", chunk)
    IN  IF tenure_raw # None /\ tenure_raw[1] \in Digits
        THEN IF float(tenure_raw) = ValueError THEN ValueError
             ELSE IntNum(float(tenure_raw).int)
        ELSE Null

\* lines 293-297: written_off and settlement, 0 when there is no number
AmountOrZero(label, chunk) ==
    LET v == get(label, chunk)
    IN  IF v # None /\ HasDigit(v) THEN norm_float(v) ELSE IntNum(0)

\* the characters of a chunk: its lines, a newline after each but the last
RECURSIVE Flatten(_)
Flatten(chunk) ==
    IF chunk = << >> THEN << >>
    ELSE IF Len(chunk) = 1 THEN chunk[1]
    ELSE chunk[1] \o << "\n" >> \o Flatten(Tail(chunk))

\* lines 299-316
account_details(chunk) ==
    [credit_limit       |-> money("Credit Limit", chunk),
     high_credit        |-> money("High Credit", chunk),
     sanctioned_amount  |-> money("Sanctioned Amount", chunk),
     current_balance    |-> money("Current Balance", chunk),
     cash_limit         |-> money("Cash Limit", chunk),
     amount_overdue     |-> money("Amount Overdue", chunk),
     rate_of_interest   |-> rate_of_interest(chunk),
     repayment_tenure   |-> repayment_tenure(chunk),
     emi_amount         |-> money("EMI Amount", chunk),
     payment_frequency  |-> get("Payment Frequency", chunk),
     date_opened        |-> norm_date(get("Date Opened / Disbursed", chunk)),
     date_closed        |-> norm_date(get("Date Closed", chunk)),
     date_last_payment  |-> norm_date(get("Date of Last Payment", chunk)),
     written_off_amount |-> AmountOrZero("Written-off Amount (Total)", chunk),
     settlement_amount  |-> AmountOrZero("Settlement Amount", chunk)]

NumberFields ==
    {"credit_limit", "high_credit", "sanctioned_amount", "current_balance",
     "cash_limit", "amount_overdue", "rate_of_interest", "repayment_tenure",
     "emi_amount", "written_off_amount", "settlement_amount"}

\* parse_single_account: the record it returns, or raised = TRUE when one
\* of its conversions raises.  account_number_masked and suit_filed_flag,
\* which no conversion touches, are left out.
parse_single_account(chunk) ==
    LET details == account_details(chunk)
    IN  [member_name     |-> find("Member Name", chunk),
         account_type    |-> find("Account Type", chunk),
         ownership       |-> find("Ownership", chunk),
         account_details |-> details,
         payment_history |-> parse_payment_history(Flatten(chunk)),
         raised          |-> \E f \in NumberFields : details[f] = ValueError]

\* re.split at every place where "Member Name\s*\n" begins: before each
\* line "Member Name" that a newline follows.  The section was stripped, so
\* no newline follows its last line.  The first chunk is what precedes the
\* first such line, and is empty when the section starts with one.
SplitPoints(acc_section) ==
    {i \in 1..(Len(acc_section) - 1) : acc_section[i] = << "Member Name" >>}

raw_chunks(acc_section) ==
    LET at == SortedSeq(SplitPoints(acc_section))
        n  == Len(at)
        first(j) == IF j = 1 THEN 1 ELSE at[j - 1]
        last(j)  == IF j = n + 1 THEN Len(acc_section) ELSE at[j] - 1
    IN  [j \in 1..(n + 1) |-> SubSeq(acc_section, first(j), last(j))]

\* "Account Type" in chunk
HasAccountType(chunk) ==
    \E i \in DOMAIN chunk : \E k \in DOMAIN chunk[i] :
        chunk[i][k] = "Account Type"

\* a parse_accounts that keeps the records without a member name
parse_accounts_keeps_nameless(acc_section) ==
    LET chunks  == raw_chunks(acc_section)
        typed   == {j \in DOMAIN chunks : HasAccountType(chunks[j])}
        parses  == [j \in typed |-> parse_single_account(chunks[j])]
        acc(j)  == parses[j]
        kept    == typed
        closed  == SortedSeq({j \in kept :
                                 acc(j).account_details.date_closed # None})
        open    == SortedSeq({j \in kept :
                                 acc(j).account_details.date_closed = None})
        rec(j)  == [chunk           |-> j,
                    member_name     |-> acc(j).member_name,
                    account_type    |-> acc(j).account_type,
                    account_details |-> acc(j).account_details,
                    payment_history |-> acc(j).payment_history]
        raised  == \E j \in typed : acc(j).raised
    IN  IF raised
        THEN [raised |-> TRUE, open_accounts |-> << >>,
              closed_accounts |-> << >>]
        ELSE [raised          |-> FALSE,
              open_accounts   |-> [i \in DOMAIN open |-> rec(open[i])],
              closed_accounts |-> [i \in DOMAIN closed |-> rec(closed[i])]]

\* parse_accounts from the split on: acc_section is the accounts section.
\* Each record carries the index of the chunk it was extracted from; raised
\* is TRUE, and there is no result, when parse_single_account raises.
parse_accounts(acc_section) ==
    LET chunks  == raw_chunks(acc_section)
        typed   == {j \in DOMAIN chunks : HasAccountType(chunks[j])}
        parses  == [j \in typed |-> parse_single_account(chunks[j])]
        acc(j)  == parses[j]
        kept    == {j \in typed : acc(j).member_name # None}
        closed  == SortedSeq({j \in kept :
                                 acc(j).account_details.date_closed # None})
        open    == SortedSeq({j \in kept :
                                 acc(j).account_details.date_closed = None})
        rec(j)  == [chunk           |-> j,
                    member_name     |-> acc(j).member_name,
                    account_type    |-> acc(j).account_type,
                    account_details |-> acc(j).account_details,
                    payment_history |-> acc(j).payment_history]
        raised  == \E j \in typed : acc(j).raised
    IN  IF raised
        THEN [raised |-> TRUE, open_accounts |-> << >>,
              closed_accounts |-> << >>]
        ELSE [raised          |-> FALSE,
              open_accounts   |-> [i \in DOMAIN open |-> rec(open[i])],
              closed_accounts |-> [i \in DOMAIN closed |-> rec(closed[i])]]

\* line 331: the pages joined by newlines, as one sequence of lines
RECURSIVE full_text(_)
full_text(pages) ==
    IF pages = << >> THEN << >> ELSE pages[1] \o full_text(Tail(pages))

EndMarkers == {<< "ENQUIRY DETAILS" >>, << "End of report" >>}

\* an accounts section that is the whole text
AccSection_whole_text(text) == text

\* line 334: the accounts section is what follows the first ALL ACCOUNTS
\* heading, up to the next ENQUIRY DETAILS or End of report heading or to
\* the end of the text; it is empty when there is no heading or nothing
\* follows it.  Headings are lines of their own.
AccSection(text) ==
    LET starts == {i \in 1..(Len(text) - 1) : text[i] = << "ALL ACCOUNTS" >>}
        i      == CHOOSE k \in starts : \A j \in starts : k <= j
        ends   == {e \in (i + 1)..Len(text) : text[e] \in EndMarkers}
        e      == IF ends = {} THEN Len(text) + 1
                  ELSE CHOOSE k \in ends : \A j \in ends : k <= j
    IN  IF starts = {} THEN << >> ELSE SubSeq(text, i + 1, e - 1)

\* lines 330-357: parse_accounts(pages)
accounts(pages) == parse_accounts(AccSection(full_text(pages)))

\* the columns of an account that the model's accounts and payment_history
\* rows keep
AccountColumns(acc) ==
    [date_closed     |-> acc.account_details.date_closed,
     payment_history |-> [k \in DOMAIN acc.payment_history |->
                             [month |-> acc.payment_history[k].month,
                              dpd   |-> acc.payment_history[k].dpd]]]

OpenCardLines ==
    << << "Member Name" >>, << "ABC Bank" >>,
       << "Account Type" >>, << "Credit Card" >>,
       << "Date Closed" >>, << "-" >>,
       << "J", "a", "n", " ", "2", "0", "2", "4", " ", "S", "T", "D" >> >>

ClosedLoanLines ==
    << << "Member Name" >>, << "XYZ Bank" >>,
       << "Account Type" >>, << "Home Loan" >>,
       << "Date Closed" >>,
       << "0", "1", "/", "0", "5", "/", "2", "0", "2", "3" >>,
       << "D", "e", "c", " ", "2", "0", "2", "2", " ", "4", "5" >> >>

\* an account whose Date Closed is no date
UndatedLoanLines ==
    << << "Member Name" >>, << "XYZ Bank" >>,
       << "Account Type" >>, << "Home Loan" >>,
       << "Date Closed" >>, << "N", ".", "A", "." >>,
       << "F", "e", "b", " ", "2", "0", "2", "4", " ", "X", "X", "X" >> >>

\* The uploads of the parse-then-save pipeline: one page with the ALL
\* ACCOUNTS heading and up to MaxAccounts accounts.
MaxAccounts == 2

RECURSIVE AccountLines(_)
AccountLines(accs) ==
    IF accs = << >> THEN << >> ELSE accs[1] \o AccountLines(Tail(accs))

PipelineTexts ==
    {<< << << "ALL ACCOUNTS" >> >> \o AccountLines(accs) >> :
        accs \in UNION {[1..n -> {OpenCardLines, ClosedLoanLines,
                                  UndatedLoanLines}] :
                           n \in 0..MaxAccounts}}

\* the month and dpd of a payment-history entry
Entry(month, dpd) == [month |-> month, dpd |-> dpd]

\* the reports the model ingests: the data parse_cibil_pdf returned, as far
\* as save_to_db is modelled.  pages is the number of pages ocr_pdf
\* returned; an account is its closing date and its payment history.  Two
\* reports have the same control number, one has none, and one is that of a
\* PDF without pages.
Reports ==
    { [pages |-> 2,
       control_number |-> "CN1", report_date |-> "2024-01-05", nIds |-> 1,
       nAddr |-> 1,
       open |-> << [date_closed |-> None,
                    payment_history |->
                        << Entry(<< "2", "0", "2", "4", "-", "0", "1" >>, 0),
                           Entry(<< "2", "0", "2", "4", "-", "0", "2" >>, 30)
                        >>] >>,
       closed |-> << [date_closed |-> << "2", "0", "2", "3", "-", "0", "5",
                                         "-", "0", "1" >>,
                      payment_history |->
                        << Entry(<< "2", "0", "2", "2", "-", "1", "2" >>, 0)
                        >>] >>,
       nEnq |-> 2],
      [pages |-> 2,
       control_number |-> "CN1", report_date |-> "2024-02-07", nIds |-> 2,
       nAddr |-> 0,
       open |-> << [date_closed |-> None,
                    payment_history |->
                        << Entry(<< "2", "0", "2", "4", "-", "0", "3" >>,
                                 NoDpd) >>] >>,
       closed |-> << >>,
       nEnq |-> 0],
      [pages |-> 1,
       control_number |-> NULL, report_date |-> "2024-03-09", nIds |-> 1,
       nAddr |-> 0,
       open |-> << >>,
       closed |-> << [date_closed |-> << "2", "0", "2", "2", "-", "1", "1",
                                         "-", "3", "0" >>,
                      payment_history |->
                        << Entry(<< "2", "0", "2", "2", "-", "1", "0" >>, 45)
                        >>] >>,
       nEnq |-> 1],
      EmptyPagesReport }

\* The pages of one upload: the example account, up to MaxAround lines
\* before it and after it, on one page or with a page break before the
\* account.
MaxAround == 2

ExampleLines ==
    << << "Member Name" >>, << "ABC Bank" >>,
       << "Account Type" >>, << "Credit Card" >>,
       << "Date Closed" >>, << "-" >>,
       << "J", "a", "n", " ", "2", "0", "2", "4", " ", "S", "T", "D" >>,
       << "F", "e", "b", " ", "2", "0", "2", "4", " ", "3", "0" >> >>

LinesBefore ==
    {<< "ALL ACCOUNTS" >>, << "ENQUIRY DETAILS" >>,
     << "CONSUMER CIBIL REPORT" >>}

LinesAfter ==
    {<< "ENQUIRY DETAILS" >>, << "End of report" >>,
     << "M", "a", "r", " ", "2", "0", "2", "4", " ", "6", "0" >>}

Around(lines) == UNION {[1..n -> lines] : n \in 0..MaxAround}

PageTexts ==
    UNION {{<< pre \o ExampleLines \o post >>,
            << pre, ExampleLines \o post >>} :
              pre \in Around(LinesBefore), post \in Around(LinesAfter)}

\* One account chunk: the lines that name the member and the account type,
\* then up to MaxFields fields, each a label line and a value line.
MaxFields == 2

AccountHeader ==
    << << "Member Name" >>, << "ABC Bank" >>,
       << "Account Type" >>, << "Credit Card" >> >>

FieldLabels ==
    {"Repayment Tenure", "Rate of Interest", "Credit Limit",
     "Written-off Amount (Total)", "Date Opened / Disbursed"}

FieldValues ==
    {<< "1", "2" >>,
     << "1", "2", " ", "months" >>,
     << "1", "2", ".", "5" >>,
     << "1", ".", "2", ".", "3" >>,
     << "-" >>,
     << "N", ".", "A", "." >>,
     << "5", ",", "0", "0", "0" >>,
     << "1", "2", ".", "5", "%" >>,
     << "3", "1", "/", "1", "2", "/", "2", "0", "2", "0" >>}

RECURSIVE FieldLines(_)
FieldLines(fs) ==
    IF fs = << >> THEN << >>
    ELSE << << fs[1][1] >>, fs[1][2] >> \o FieldLines(Tail(fs))

Chunks ==
    {AccountHeader \o FieldLines(fs) :
        fs \in UNION {[1..n -> FieldLabels \X FieldValues] :
                         n \in 0..MaxFields}}

\* the lines the modelled accounts sections are made of
LineAlphabet ==
    {<< "Member Name" >>, << "ABC Bank" >>, << "Account Type" >>,
     << "Date Closed" >>, << "-" >>,
     << "1", "/", "0", "2", "/", "2", "0", "2", "0" >>}

Sections == UNION {[1..n -> LineAlphabet] : n \in 0..MaxLines}

(* ------------------------------------------------------------------ *)
(* State                                                                *)
(* ------------------------------------------------------------------ *)
VARIABLES
    db,        \* the committed database image (what any new read sees)
    lock,      \* the connection holding the write lock, 0 when free
    conn,      \* conn[c]: the request running on connection c
    clock,     \* datetime('now'), advanced by every save_to_db call
    resp,      \* the last HTTP response given
    log,       \* log[n]: the report the n-th save_to_db call was given
    done,      \* the save_to_db calls that committed
    deleted,   \* the report ids whose delete_report answered "deleted"
    section,   \* input of the account parser: the lines of the text
    parsed     \* output of parse_accounts for section

vars == << db, lock, conn, clock, resp, log, done, deleted, section, parsed >>

dbvars == << db, lock, conn, clock, resp, log, done, deleted >>

\* report ids the handlers are asked about
Ids == 1..MaxIngest

NoReport == EmptyPagesReport

IdleConn ==
    [pc |-> "idle", lastrowid |-> 0, txn |-> init_db, data |-> NoReport,
     report_id |-> 0, rid |-> 0, stmts |-> << >>, overlap |-> FALSE]

NoResp == [op |-> "none", id |-> 0, status |-> 0]

NoParse == [ran |-> FALSE, open_accounts |-> << >>, closed_accounts |-> << >>]

Init ==
    /\ db = init_db
    /\ lock = 0
    /\ conn = [c \in Conn |-> IdleConn]
    /\ clock = 0
    /\ resp = NoResp
    /\ log = << >>
    /\ done = {}
    /\ deleted = {}
    /\ section = << >>
    /\ parsed = NoParse

\* no request is in progress (a connection abandoned after a failure is not
\* a request in progress: its handler has answered)
Quiet == \A c \in Conn : conn[c].pc \in {"idle", "abandoned"}

(* ------------------------------------------------------------------ *)
(* POST /parse (parse_report) and save_to_db                            *)
(* ------------------------------------------------------------------ *)
\* the ingestions started so far: the save_to_db calls made and those about
\* to be made
Started ==
    clock + Cardinality({c \in Conn : conn[c].pc = "save_to_db"})

\* a handler that commits what its connection wrote before it failed
OnException_commits(committed, txn) == txn

\* main.py lines 98-101: an exception of parse_cibil_pdf or save_to_db is
\* answered 500; the connection is neither committed nor closed, so what
\* stays durable once it is dropped is the committed image, not its
\* transaction
OnException(committed, txn) == committed

\* main.py lines 83, 98-99: ocr_pdf raises; nothing is opened or written
ParseReportOcrFails(c) ==
    /\ conn[c].pc = "idle"
    /\ resp' = [op |-> "parse", id |-> 0, status |-> 500]
    /\ UNCHANGED << db, lock, conn, clock, log, done, deleted, section, parsed >>

\* the request on connection c arrives while another ingestion is between
\* its connect and its commit
Overlaps(c) ==
    \E c2 \in Conn \ {c} : conn[c2].pc \in {"save_to_db", "commit"}

\* main.py lines 83-87: the PDF is parsed into report d (EmptyPagesReport
\* when ocr_pdf returns no page) and init_db opens a new connection; resp
\* holds the response of the request served last, none while one is running
ParseReport(c, d) ==
    /\ conn[c].pc = "idle"
    /\ Started < MaxIngest
    /\ conn' = [conn EXCEPT ![c] = [IdleConn EXCEPT !.pc = "save_to_db",
                                                    !.data = d,
                                                    !.overlap = Overlaps(c)]]
    /\ resp' = NoResp
    /\ UNCHANGED << db, lock, clock, log, done, deleted, section, parsed >>

\* save_to_db lines 526-600 on connection c: the first statement takes the
\* write lock, then the statements run on the connection's transaction.
\* k statements succeed; when k is less than their number the next one
\* raises (a failed write), which parse_report answers with 500.
SaveToDb(c, k) ==
    /\ conn[c].pc = "save_to_db"
    /\ lock = 0
    /\ LET d     == conn[c].data
           stmts == SaveStmts(d)
           now   == clock + 1
           st    == RunSave([img |-> db, lastrowid |-> conn[c].lastrowid,
                             report_id |-> 0, acc_id |-> 0],
                            stmts, k, d, now)
       IN  /\ k \in 1..Len(stmts)
           /\ clock' = now
           /\ log' = Append(log, d)
           /\ lock' = c
           /\ conn' = [conn EXCEPT ![c] =
                         [@ EXCEPT !.pc = IF k = Len(stmts) THEN "commit"
                                          ELSE "abandoned",
                                   !.txn = st.img,
                                   !.lastrowid = st.lastrowid,
                                   !.report_id = st.report_id]]
           /\ resp' = IF k = Len(stmts) THEN resp
                      ELSE [op |-> "parse", id |-> 0, status |-> 500]
    /\ UNCHANGED << db, done, deleted, section, parsed >>

\* the first statement of save_to_db finds the write lock held until the
\* connection's timeout (sqlite3.connect's default): "database is locked"
SaveBusy(c) ==
    /\ conn[c].pc = "save_to_db"
    /\ lock # 0
    /\ conn' = [conn EXCEPT ![c] = [@ EXCEPT !.pc = "abandoned", !.txn = db]]
    /\ resp' = [op |-> "parse", id |-> 0, status |-> 500]
    /\ UNCHANGED << db, lock, clock, log, done, deleted, section, parsed >>

\* save_to_db lines 602-603: conn.commit() makes the transaction durable
\* and releases the lock; report_id is returned
Commit(c) ==
    /\ conn[c].pc = "commit"
    /\ db' = conn[c].txn
    /\ lock' = 0
    /\ done' = done \cup {clock}
    /\ conn' = [conn EXCEPT ![c] = [@ EXCEPT !.pc = "committed"]]
    /\ UNCHANGED << clock, resp, log, deleted, section, parsed >>

\* conn.commit() itself raises (the file cannot be written)
CommitFails(c) ==
    /\ conn[c].pc = "commit"
    /\ conn' = [conn EXCEPT ![c] = [@ EXCEPT !.pc = "abandoned"]]
    /\ resp' = [op |-> "parse", id |-> 0, status |-> 500]
    /\ UNCHANGED << db, lock, clock, log, done, deleted, section, parsed >>

\* main.py lines 89-96: conn.close() and the success response
Close(c) ==
    /\ conn[c].pc = "committed"
    /\ conn' = [conn EXCEPT ![c] = IdleConn]
    /\ resp' = [op |-> "parse", id |-> conn[c].report_id, status |-> 200]
    /\ UNCHANGED << db, lock, clock, log, done, deleted, section, parsed >>

\* the connection a failed parse_report left behind is reclaimed: SQLite
\* rolls its open transaction back and its lock is released
ConnDropped(c) ==
    /\ conn[c].pc = "abandoned"
    /\ db' = OnException(db, conn[c].txn)
    /\ lock' = IF lock = c THEN 0 ELSE lock
    /\ conn' = [conn EXCEPT ![c] = IdleConn]
    /\ UNCHANGED << clock, resp, log, done, deleted, section, parsed >>

\* a caller that keeps the connection open calls save_to_db(conn, d) again
\* (save_to_db takes the connection as its argument; nothing in it resets
\* the connection's last_insert_rowid)
SaveToDbAgain(c, d) ==
    /\ conn[c].pc = "committed"
    /\ Started < MaxIngest
    /\ conn' = [conn EXCEPT ![c] = [@ EXCEPT !.pc = "save_to_db", !.data = d]]
    /\ UNCHANGED << db, lock, clock, resp, log, done, deleted, section, parsed >>

(* ------------------------------------------------------------------ *)
(* DELETE /reports/{id} (delete_report)                                 *)
(* ------------------------------------------------------------------ *)
\* main.py lines 248-250: the report is looked up; 404 when it is absent
DeleteReport(c, rid) ==
    /\ conn[c].pc = "idle"
    /\ IF get_report(db, rid) = 404
       THEN /\ resp' = [op |-> "delete_report", id |-> rid, status |-> 404]
            /\ UNCHANGED conn
       ELSE /\ conn' = [conn EXCEPT ![c] = [IdleConn EXCEPT !.pc = "del_select",
                                                            !.rid = rid]]
            /\ resp' = NoResp
    /\ UNCHANGED << db, lock, clock, log, done, deleted, section, parsed >>

\* main.py lines 253-255: the report's account ids are read
DeleteSelectAccounts(c) ==
    /\ conn[c].pc = "del_select"
    /\ conn' = [conn EXCEPT ![c] =
                  [@ EXCEPT !.pc = "del_exec",
                            !.stmts = DeleteStmts(SelectAccountIds(db, conn[c].rid))]]
    /\ UNCHANGED << db, lock, clock, resp, log, done, deleted, section, parsed >>

\* main.py lines 256-264: the next DELETE statement runs; the first one
\* begins the transaction and takes the write lock
DeleteExec(c) ==
    /\ conn[c].pc = "del_exec"
    /\ conn[c].stmts # << >>
    /\ lock \in {0, c}
    /\ LET img == IF lock = c THEN conn[c].txn ELSE db
       IN  conn' = [conn EXCEPT ![c] =
                      [@ EXCEPT !.txn = ExecDelete(img, Head(conn[c].stmts),
                                                   conn[c].rid),
                                !.stmts = Tail(@)]]
    /\ lock' = c
    /\ UNCHANGED << db, clock, resp, log, done, deleted, section, parsed >>

\* the first DELETE finds the write lock held until the timeout: the
\* handler answers 500 and get_db closes the connection
DeleteBusy(c) ==
    /\ conn[c].pc = "del_exec"
    /\ lock \notin {0, c}
    /\ conn' = [conn EXCEPT ![c] = IdleConn]
    /\ resp' = [op |-> "delete_report", id |-> conn[c].rid, status |-> 500]
    /\ UNCHANGED << db, lock, clock, log, done, deleted, section, parsed >>

\* main.py lines 265-266: conn.commit() and the "deleted" response
DeleteCommit(c) ==
    /\ conn[c].pc = "del_exec"
    /\ conn[c].stmts = << >>
    /\ lock = c
    /\ db' = conn[c].txn
    /\ lock' = 0
    /\ deleted' = deleted \cup {conn[c].rid}
    /\ resp' = [op |-> "delete_report", id |-> conn[c].rid, status |-> 200]
    /\ conn' = [conn EXCEPT ![c] = IdleConn]
    /\ UNCHANGED << clock, log, done, section, parsed >>

(* ------------------------------------------------------------------ *)
(* GET /reports/{id} and its narrowed views                             *)
(* ------------------------------------------------------------------ *)
\* main.py lines 124-240: handler op answers for report id from the
\* committed image
Lookup(op, id) ==
    /\ resp' = [op |-> op, id |-> id, status |-> LookupStatus(op, db, id)]
    /\ UNCHANGED << db, lock, conn, clock, log, done, deleted, section, parsed >>

(* ------------------------------------------------------------------ *)
(* Specifications                                                       *)
(* ------------------------------------------------------------------ *)
\* the steps of an ingestion on connection c once it has arrived
ContinueSave(c) ==
    \/ \E k \in 1..Len(SaveStmts(conn[c].data)) : SaveToDb(c, k)
    \/ Commit(c)
    \/ CommitFails(c)
    \/ Close(c)
    \/ ConnDropped(c)

\* the steps of a delete_report on connection c once it has arrived
ContinueDelete(c) ==
    \/ DeleteSelectAccounts(c)
    \/ DeleteExec(c)
    \/ DeleteCommit(c)

\* a new request that writes arrives on connection c
Arrive(c) ==
    \/ ParseReportOcrFails(c)
    \/ \E d \in Reports : ParseReport(c, d)
    \/ \E rid \in Ids : DeleteReport(c, rid)

\* the API serving ingestions and deletions one after the other, each on a
\* connection of its own (get_db and parse_report open one per request)
Next ==
    \/ ContinueSave(1)
    \/ ContinueDelete(1)
    \/ Quiet /\ Arrive(1)

Spec == Init /\ [][Next]_vars

\* the same with the read handlers, served between the requests that write
NextLookup ==
    \/ Next
    \/ \E op \in Lookups, id \in Ids : Quiet /\ Lookup(op, id)

SpecLookup == Init /\ [][NextLookup]_vars

\* main.py lines 107-118: GET /reports answers from the committed image
ListReports ==
    /\ resp' = [op |-> "list_reports", id |-> 0, status |-> 200,
                body |-> list_reports(db)]
    /\ UNCHANGED << db, lock, conn, clock, log, done, deleted, section, parsed >>

\* the sequential service with GET /reports
NextList ==
    \/ Next
    \/ Quiet /\ ListReports

SpecList == Init /\ [][NextList]_vars

\* a caller that keeps one connection for several save_to_db calls
NextReuse ==
    \/ Next
    \/ \E d \in Reports : SaveToDbAgain(1, d)

SpecReuse == Init /\ [][NextReuse]_vars

\* ingestions served at the same time on separate connections: a request
\* arrives whatever the other connection does, and a first write that
\* finds the lock held may wait for it or give up at the timeout
NextConc ==
    \/ \E c \in Conn : ContinueSave(c)
    \/ \E c \in Conn : SaveBusy(c)
    \/ \E c \in Conn : ParseReportOcrFails(c)
    \/ \E c \in Conn, d \in Reports : Started < MaxConcIngest /\ ParseReport(c, d)

SpecConc == Init /\ [][NextConc]_vars

\* ingestions and deletions served at the same time
NextConcDelete ==
    \/ NextConc
    \/ \E c \in Conn : ContinueDelete(c)
    \/ \E c \in Conn : DeleteBusy(c)
    \/ \E c \in Conn, rid \in Ids : DeleteReport(c, rid)

SpecConcDelete == Init /\ [][NextConcDelete]_vars

(* ------------------------------------------------------------------ *)
(* The account parser run on every accounts section of up to MaxLines  *)
(* lines; the store stays as constructed.                               *)
(* ------------------------------------------------------------------ *)
InitParse ==
    /\ db = init_db
    /\ lock = 0
    /\ conn = [c \in Conn |-> IdleConn]
    /\ clock = 0
    /\ resp = NoResp
    /\ log = << >>
    /\ done = {}
    /\ deleted = {}
    /\ section \in Sections
    /\ parsed = NoParse

ParseAccounts ==
    /\ ~parsed.ran
    /\ parsed' = [ran |-> TRUE] @@ parse_accounts(section)
    /\ UNCHANGED << dbvars, section >>

NextParse == ParseAccounts

SpecParse == InitParse /\ [][NextParse]_vars

(* ------------------------------------------------------------------ *)
(* The functions of the parser run alone: section is the input, parsed *)
(* the output; the store stays as constructed.                          *)
(* ------------------------------------------------------------------ *)
InitStore ==
    /\ db = init_db
    /\ lock = 0
    /\ conn = [c \in Conn |-> IdleConn]
    /\ clock = 0
    /\ resp = NoResp
    /\ log = << >>
    /\ done = {}
    /\ deleted = {}

\* parse_payment_history on every text of up to MaxPieces pieces
InitHistory ==
    /\ InitStore
    /\ section \in HistoryTexts
    /\ parsed = NoParse

ParsePaymentHistory ==
    /\ ~parsed.ran
    /\ parsed' = [ran |-> TRUE, history |-> parse_payment_history(section)]
    /\ UNCHANGED << dbvars, section >>

NextHistory == ParsePaymentHistory

SpecHistory == InitHistory /\ [][NextHistory]_vars

\* norm_date on every input of DateInputs and OtherInputs, and once more on
\* its own output
InitDate ==
    /\ InitStore
    /\ section \in DateInputs \cup OtherInputs
    /\ parsed = NoParse

NormDate ==
    /\ ~parsed.ran
    /\ parsed' = [ran   |-> TRUE,
                  out   |-> norm_date(RawOf(section)),
                  again |-> norm_date(norm_date(RawOf(section)))]
    /\ UNCHANGED << dbvars, section >>

NextDate == NormDate

SpecDate == InitDate /\ [][NextDate]_vars

\* ---- parse_single_account on its own: the chunk is drawn from Chunks ----
InitAccount == InitStore /\ section \in Chunks /\ parsed = NoParse

ParseSingleAccount ==
    /\ ~parsed.ran
    /\ parsed' = [ran |-> TRUE, acc |-> parse_single_account(section)]
    /\ UNCHANGED << dbvars, section >>

NextAccount == ParseSingleAccount

SpecAccount == InitAccount /\ [][NextAccount]_vars

\* ---- parse_accounts on the pages of one upload, drawn from PageTexts ----
InitPages == InitStore /\ section \in PageTexts /\ parsed = NoParse

ParsePages ==
    /\ ~parsed.ran
    /\ parsed' = [ran |-> TRUE] @@ accounts(section)
    /\ UNCHANGED << dbvars, section >>

NextPages == ParsePages

SpecPages == InitPages /\ [][NextPages]_vars

\* ---- the parse-then-save pipeline on one upload, drawn from ----
\* ---- PipelineTexts, ingested up to MaxIngest times and deleted ----
InitPipeline == InitStore /\ section \in PipelineTexts /\ parsed = NoParse

\* the data parse_cibil_pdf returns for the parsed upload, as far as
\* save_to_db is modelled
ParsedReport ==
    [pages |-> Len(section),
     control_number |-> "CN1", report_date |-> "2024-01-05",
     nIds |-> 1, nAddr |-> 0,
     open   |-> [i \in DOMAIN parsed.open_accounts |->
                    AccountColumns(parsed.open_accounts[i])],
     closed |-> [i \in DOMAIN parsed.closed_accounts |->
                    AccountColumns(parsed.closed_accounts[i])],
     nEnq |-> 0]

NextPipeline ==
    \/ ParsePages
    \/ parsed.ran /\ Quiet /\ ParseReport(1, ParsedReport)
    \/ ContinueSave(1)
    \/ ContinueDelete(1)
    \/ \E rid \in Ids : Quiet /\ DeleteReport(1, rid)

SpecPipeline == InitPipeline /\ [][NextPipeline]_vars

(* ------------------------------------------------------------------ *)
(* Properties of the store                                              *)
(* ------------------------------------------------------------------ *)
\* the number of rows one save_to_db of report d inserts into table t
Count(d, t) ==
    LET stmts == SaveStmts(d)
    IN  Cardinality({i \in DOMAIN stmts : stmts[i].op = t})

DataTables == Tables \ {"report_metadata"}

\* the rows of table t in image img written by the n-th save_to_db call
RowsOf(img, n, t) == {r \in img.tab[t] : r.ing = n}

\* nothing the n-th save_to_db call wrote is in image img
NoneVisible(img, n) ==
    /\ \A t \in DataTables : RowsOf(img, n, t) = {}
    /\ \A m \in img.tab["report_metadata"] : m.created_at # n

\* everything the n-th save_to_db call wrote is in image img: all its rows
\* and the report_metadata row they were written for
AllVisible(img, n) ==
    /\ \A t \in DataTables : Cardinality(RowsOf(img, n, t)) = Count(log[n], t)
    /\ \E m \in img.tab["report_metadata"] :
          /\ m.control_number = log[n].control_number
          /\ m.created_at >= n
          /\ \A t \in ReportChildTables :
                \A r \in RowsOf(img, n, t) : r.report_id = m.id

\* every report_id names a report_metadata row and every account_id an
\* accounts row
RefIntegrity(img) ==
    /\ \A t \in ReportChildTables : \A r \in img.tab[t] :
          \E m \in img.tab["report_metadata"] : m.id = r.report_id
    /\ \A p \in img.tab["payment_history"] :
          \E a \in img.tab["accounts"] : a.id = p.account_id

\* C1: an ingestion is atomic.  In the image every read sees, a save_to_db
\* call that did not commit (a write or the commit failed) has left nothing,
\* neither a child row nor its report_metadata insert/update; one that
\* committed has left all of its rows together (or, once its report was
\* deleted, none).
C1_IngestionAtomic ==
    \A n \in 1..Len(log) :
        /\ n \notin done => NoneVisible(db, n)
        /\ n \in done => AllVisible(db, n) \/ NoneVisible(db, n)

\* C1 witness: a save_to_db failed part-way after an earlier one committed;
\* its transaction holds rows the committed image lacks, its connection was
\* left behind and the request was answered 500
C1_Witness ==
    /\ conn[1].pc = "abandoned"
    /\ done # {}
    /\ Len(log) \notin done
    /\ RowsOf(conn[1].txn, Len(log), "accounts") # {}
    /\ RowsOf(conn[1].txn, Len(log), "enquiries") = {}
    /\ resp.status = 500

\* C2 (as claimed): after the same report was ingested twice (and nothing
\* deleted) there is one report_metadata row and every other table holds
\* twice the rows one ingestion inserts
C2_ReingestOneReport ==
    (Len(log) = 2 /\ log[1] = log[2] /\ done = {1, 2} /\ deleted = {})
    => /\ Cardinality(db.tab["report_metadata"]) = 1
       /\ \A t \in DataTables :
             Cardinality(db.tab[t]) = 2 * Count(log[1], t)

\* C3 (as claimed): when save_to_db has run with a control_number that has
\* a report_metadata row, the id it returns and the report_id of every row
\* it inserted are that row's id, and the row carries the new report_date
\* and timestamp; stated for the reports that have a control_number
C3_ReusesExistingId ==
    \A c \in Conn :
        (conn[c].pc = "commit" /\ conn[c].data.control_number # NULL)
        => \A m \in db.tab["report_metadata"] :
              m.control_number = conn[c].data.control_number
              => /\ conn[c].report_id = m.id
                 /\ \A t \in ReportChildTables :
                       \A r \in RowsOf(conn[c].txn, clock, t) :
                           r.report_id = m.id
                 /\ \E u \in conn[c].txn.tab["report_metadata"] :
                       /\ u.id = m.id
                       /\ u.report_date = conn[c].data.report_date
                       /\ u.created_at = clock

\* C4 (as claimed): once delete_report(id) has answered "deleted", no row of
\* that report is left and every lookup by that id answers 404
C4_DeletedNotFound ==
    \A id \in deleted :
        /\ \A m \in db.tab["report_metadata"] : m.id # id
        /\ \A t \in ReportChildTables : \A r \in db.tab[t] : r.report_id # id
        /\ (resp.op \in Lookups /\ resp.id = id) => resp.status = 404

\* C5: referential integrity of the committed image after any sequence of
\* completed ingestions and deletions
C5_ReferentialIntegrity == RefIntegrity(db)

\* C5 witness: a report was deleted while another, with accounts and
\* payment history, is stored, and an ingestion committed after the delete
C5_Witness ==
    /\ deleted # {}
    /\ Quiet
    /\ db.tab["payment_history"] # {}
    /\ Cardinality(done) = MaxIngest
    /\ MaxIngest \in done

\* C6 (as claimed): a report has at most one score_summary, personal_details,
\* employment_details and contact_details row
C6_AtMostOnePerReport ==
    \A m \in db.tab["report_metadata"] :
        \A t \in {"score_summary", "personal_details", "employment_details",
                  "contact_details"} :
            Cardinality({r \in db.tab[t] : r.report_id = m.id}) <= 1

\* C7: at every step of delete_report's transaction no child row exists
\* whose parent row the delete has already removed: payment_history rows go
\* before their accounts rows, and every child row of the report before its
\* report_metadata row
C7_DeleteInDependencyOrder ==
    \A c \in Conn :
        (conn[c].pc = "del_exec" /\ lock = c)
        => LET img == conn[c].txn
               rid == conn[c].rid
           IN  /\ \A p \in img.tab["payment_history"] :
                     (\E a \in db.tab["accounts"] :
                         a.id = p.account_id /\ a.report_id = rid)
                     => \E a \in img.tab["accounts"] : a.id = p.account_id
               /\ \A t \in ReportChildTables : \A r \in img.tab[t] :
                     r.report_id = rid
                     => \E m \in img.tab["report_metadata"] : m.id = rid

\* C7 witness: a delete in progress has removed the payment history of a
\* report that had some, and neither its accounts nor its report row yet
C7_Witness ==
    \E c \in Conn :
        /\ conn[c].pc = "del_exec"
        /\ lock = c
        /\ \E a \in conn[c].txn.tab["accounts"] :
              /\ a.report_id = conn[c].rid
              /\ \E p \in db.tab["payment_history"] : p.account_id = a.id
              /\ \A p \in conn[c].txn.tab["payment_history"] : p.account_id # a.id

C9_ConcurrentIngestionsSerialized ==
    (/\ conn[1].pc = "committed" /\ conn[2].pc = "committed"
     /\ conn[1].data.control_number # NULL
     /\ conn[1].data.control_number = conn[2].data.control_number
     /\ Len(log) = 2 /\ deleted = {})
    => LET rows == {m \in db.tab["report_metadata"] :
                      m.control_number = conn[1].data.control_number}
       IN  /\ Cardinality(rows) = 1
           /\ \A m \in rows :
                 /\ conn[1].report_id = m.id
                 /\ conn[2].report_id = m.id
                 /\ \A t \in ReportChildTables :
                       \A r \in db.tab[t] : r.report_id = m.id
           /\ \A t \in DataTables :
                 Cardinality(db.tab[t]) = Count(log[1], t) + Count(log[2], t)
           /\ RefIntegrity(db)

\* two ingestions of "CN1", the second arriving before the first committed,
\* have both committed
C9_Witness ==
    /\ conn[1].pc = "committed" /\ conn[2].pc = "committed"
    /\ conn[1].data.control_number = "CN1"
    /\ conn[2].data.control_number = "CN1"
    /\ conn[1].overlap \/ conn[2].overlap
    /\ Len(log) = 2 /\ deleted = {}
    /\ db.tab["enquiries"] # {}

(* ------------------------------------------------------------------ *)
(* Properties of the account parser                                     *)
(* ------------------------------------------------------------------ *)
\* the chunks of the section that contain the label "Account Type"
AccountTypeChunks(acc_section) ==
    {j \in DOMAIN raw_chunks(acc_section) :
        HasAccountType(raw_chunks(acc_section)[j])}

\* those of them in which a member name is found
MemberChunks(acc_section) ==
    {j \in AccountTypeChunks(acc_section) :
        find("Member Name", raw_chunks(acc_section)[j]) # None}

\* the number of records of accs extracted from chunk j
FromChunk(accs, j) == Cardinality({i \in DOMAIN accs : accs[i].chunk = j})

\* C10 (as claimed): the open and the closed accounts together are as many
\* as the chunks of the accounts section that contain "Account Type"
C10_CountsAccountTypeChunks ==
    parsed.ran =>
        Len(parsed.open_accounts) + Len(parsed.closed_accounts)
            = Cardinality(AccountTypeChunks(section))

\* C10 (amended): every closed account has a date_closed and no open account
\* has one, every chunk that contains "Account Type" and in which a member
\* name is found gives one record, in one of the two lists, and the two
\* lists together hold as many records as there are such chunks
C10_Classification ==
    parsed.ran =>
        /\ \A i \in DOMAIN parsed.closed_accounts :
              parsed.closed_accounts[i].account_details.date_closed # None
        /\ \A i \in DOMAIN parsed.open_accounts :
              parsed.open_accounts[i].account_details.date_closed = None
        /\ \A j \in MemberChunks(section) :
              FromChunk(parsed.open_accounts, j)
                  + FromChunk(parsed.closed_accounts, j) = 1
        /\ Len(parsed.open_accounts) + Len(parsed.closed_accounts)
              = Cardinality(MemberChunks(section))

\* a section parsed into an open and a closed account
C10_Witness ==
    /\ parsed.ran
    /\ Len(parsed.open_accounts) = 1
    /\ Len(parsed.closed_accounts) = 1
    /\ parsed.closed_accounts[1].account_details.date_closed
          = << "2", "0", "2", "0", "-", "0", "2", "-", "0", "1" >>

\* C12: the dpd of every entry follows from the token it was paired with:
\* STD gives 0, XXX gives null, 0 gives 0, a run of digits gives its number
\* (45 gives 45), no token gives 0 and SMA gives 0
C12_TokenMapping ==
    parsed.ran =>
        \A i \in DOMAIN parsed.history :
            LET e == parsed.history[i]
            IN  /\ e.raw_dpd = << "S", "T", "D" >> => e.dpd = 0
                /\ e.raw_dpd = << "X", "X", "X" >> => e.dpd = NoDpd
                /\ e.raw_dpd = << "0" >> => e.dpd = 0
                /\ e.raw_dpd = << "4", "5" >> => e.dpd = 45
                /\ e.raw_dpd = << "4", "5", "0" >> => e.dpd = 450
                /\ (e.raw_dpd # << >> /\ AllDigits(e.raw_dpd))
                      => e.dpd = IntOf(e.raw_dpd)
                /\ e.raw_dpd = << >> => e.dpd = 0
                /\ e.raw_dpd = << "S", "M", "A" >> => e.dpd = 0

\* a history with an entry for XXX and an entry for a number
C12_Witness ==
    /\ parsed.ran
    /\ Len(parsed.history) = 2
    /\ parsed.history[1].raw_dpd = << "X", "X", "X" >>
    /\ parsed.history[1].dpd = NoDpd
    /\ parsed.history[2].raw_dpd = << "4", "5" >>
    /\ parsed.history[2].dpd = 45

\* the positions of the text at which a month followed by a year stands
MonthOccurrences(t) == {p \in 1..Len(t) : MonthAt(t, p)}

\* C16 (as claimed): the history has one entry per month-year occurrence, in
\* the order of the text, and the dpd of the Nth entry is that of the token
\* that directly follows the Nth occurrence (of no token when none does)
C16_TokenOfItsOwnMonth ==
    parsed.ran =>
        LET occ == SortedSeq(MonthOccurrences(section))
        IN  /\ Len(parsed.history) = Len(occ)
            /\ \A n \in DOMAIN occ :
                  /\ parsed.history[n].at = occ[n]
                  /\ parsed.history[n].dpd = DpdOf(TokenAfter(section, occ[n]))

\* C14: for a date D/M/YYYY, day 1..31 and month 1..12 written with one or
\* two digits, a four-digit year and separators / - or ., norm_date gives
\* the year, the month in two digits and the day in two digits, joined by
\* "-"; for the empty input, "-", "None" and inputs that are no such date
\* it gives null
C14_NormDate ==
    parsed.ran =>
        /\ section.kind = "date" =>
              parsed.out = section.y \o << "-" >> \o TwoDigits(section.m)
                           \o << "-" >> \o TwoDigits(section.d)
        /\ section.kind = "other" => parsed.out = None

\* the date 7.3-1999, day and month in one digit, has been normalised
C14_Witness ==
    /\ parsed.ran
    /\ section.kind = "date"
    /\ RawOf(section) = << "7", ".", "3", "-", "1", "9", "9", "9" >>
    /\ parsed.out = << "1", "9", "9", "9", "-", "0", "3", "-", "0", "7" >>

\* C15: norm_date of a non-null result of norm_date is null
C15_NotIdempotent ==
    (parsed.ran /\ parsed.out # None) => parsed.again = None

\* norm_date gave 2024-12-31 for 31/12/2024 and null for 2024-12-31
C15_Witness ==
    /\ parsed.ran
    /\ RawOf(section) = << "3", "1", "/", "1", "2", "/", "2", "0", "2", "4" >>
    /\ parsed.out = << "2", "0", "2", "4", "-", "1", "2", "-", "3", "1" >>
    /\ parsed.again = None

\* C11: parse_single_account never raises on a malformed numeric or date
\* token: every number of the record is a float, an int or null, and a
\* tenure that starts with digits is an integer.
C11_MalformedNeverRaises ==
    parsed.ran =>
        /\ ~parsed.acc.raised
        /\ \A f \in NumberFields :
               parsed.acc.account_details[f].kind \in {"null", "float", "int"}
        /\ LET tenure_raw == get("Repayment Tenure", section)
           IN  tenure_raw # None /\ tenure_raw[1] \in Digits
                   => parsed.acc.account_details.repayment_tenure.kind = "int"

\* what the example account is parsed to
IsExampleAccount(a) ==
    /\ a.member_name = << "ABC Bank" >>
    /\ a.account_type = << "Credit Card" >>
    /\ Len(a.payment_history) = 2
    /\ a.payment_history[1].month = << "2", "0", "2", "4", "-", "0", "1" >>
    /\ a.payment_history[1].dpd = 0
    /\ a.payment_history[2].month = << "2", "0", "2", "4", "-", "0", "2" >>
    /\ a.payment_history[2].dpd = 30

ExampleParsed ==
    /\ ~parsed.raised
    /\ Len(parsed.open_accounts) = 1
    /\ IsExampleAccount(parsed.open_accounts[1])
    /\ parsed.closed_accounts = << >>

\* the example account is the accounts section: the first ALL ACCOUNTS
\* heading stands before it with no end heading and no text but headings in
\* between, and an end heading or the end of the text follows it
ExampleIsSection ==
    LET text   == full_text(section)
        starts == {i \in DOMAIN text : text[i] = << "ALL ACCOUNTS" >>}
        ends(i) == {e \in (i + 1)..Len(text) : text[e] \in EndMarkers}
        n      == Len(ExampleLines)
    IN  \E i \in starts :
            /\ \A j \in starts : i <= j
            /\ \E e \in ends(i) \cup {Len(text) + 1} :
                   /\ \A k \in ends(i) : e <= k
                   /\ e - n > i
                   /\ SubSeq(text, e - n, e - 1) = ExampleLines

\* C13: every page text that contains the example lines is parsed to exactly
\* one open account (ABC Bank, Credit Card, payment history 2024-01 with
\* dpd 0 and 2024-02 with dpd 30) and no closed account.
C13_ExampleAnywhere == parsed.ran => ExampleParsed

\* C13 as amended: the same result, for the page texts in which the example
\* lines are the accounts section.
C13_ExampleInSection == parsed.ran /\ ExampleIsSection => ExampleParsed

\* a parsed page text whose accounts section is the example account
C13_Witness == parsed.ran /\ ExampleIsSection /\ ExampleParsed

\* C17: in the saved data is_open agrees with date_closed: an accounts row
\* has is_open = 1 iff its date_closed is NULL, and get_report returns it
\* under open_accounts iff its date_closed is NULL, under closed_accounts
\* otherwise.
C17_IsOpenAgreesWithDateClosed ==
    /\ \A acc \in db.tab["accounts"] :
           /\ acc.is_open \in {0, 1}
           /\ acc.is_open = 1 <=> acc.date_closed = None
    /\ \A id \in Ids :
           \A acc \in {r \in db.tab["accounts"] : r.report_id = id} :
               /\ acc \in get_report_accounts(db, id).open_accounts
                      <=> acc.date_closed = None
               /\ acc \in get_report_accounts(db, id).closed_accounts
                      <=> acc.date_closed # None

\* a committed report with an open and a closed account, both returned by
\* get_report
C17_Witness ==
    \E id \in Ids :
        /\ \E acc \in get_report_accounts(db, id).open_accounts :
               acc.date_closed = None
        /\ \E acc \in get_report_accounts(db, id).closed_accounts :
               acc.date_closed # None

\* C18: when a delete_report runs concurrently with an ingestion that
\* upserts the same report, no orphan is left once both have finished: every
\* child row's report and every payment_history row's account exist.
C18_NoOrphanAfterConcurrentDelete ==
    (Quiet /\ deleted # {}) => RefIntegrity(db)

\* C19: list_reports returns exactly one entry per report_metadata row.
C19_OneEntryPerReport ==
    [][ListReports =>
          \A m \in db.tab["report_metadata"] :
              Cardinality({e \in resp'.body : e.id = m.id}) = 1]_vars

====
